---------------------------- MODULE Spec2Model ----------------------------
(***************************************************************************)
(* Model of keccak256/src/arith_helpers.rs (base-9 / base-13 lane          *)
(* arithmetic and the StateBigInt container) and of                        *)
(* bus-mapping/src/state_db.rs (the in-memory StateDB).                    *)
(*                                                                         *)
(* A BigUint is modelled the way num-bigint stores it: a little-endian     *)
(* sequence of limbs with no trailing zero limb (zero is the empty         *)
(* sequence).  The limb is 16 bits wide so that every intermediate product *)
(* stays inside TLC's integers; the values are the true ones, up to        *)
(* 13^65 and the 254-bit field modulus.  A u64 is its 64 bits, bit i at    *)
(* index i.                                                                *)
(***************************************************************************)
EXTENDS Integers, Sequences, FiniteSets, TLC

VARIABLES
    debug,      \* build profile: TRUE when debug assertions and overflow checks are compiled in
    pc,         \* where the running scenario stands
    args,       \* the call being made and its arguments
    big,        \* lane machines: the BigUint lane handed to the converter
    ret,        \* what the last call returned (or that it panicked)
    summed,     \* sum machine: how many times each word has been added
    acc,        \* sum machine: the base-13 accumulator (a BigUint)
    xored,      \* sum machine: the XOR of the words added so far (a u64)
    container,  \* container machine: the StateBigInt the program holds
    state,      \* StateDB.state: the accounts, by address
    touched,    \* history: the addresses set_account, get_account_mut,
                \* get_storage_mut or increase_nonce has been called on
    access_list_account,          \* StateDB.access_list_account
    access_list_account_storage,  \* StateDB.access_list_account_storage
    refund,     \* StateDB.refund
    calls       \* history: the last access-list calls and what they returned

sumVars == <<summed, acc, xored>>

alVars == <<access_list_account, access_list_account_storage, refund, calls>>

dbVars == <<state, touched, alVars>>

vars == <<debug, pc, args, big, ret, sumVars, container, dbVars>>

(***************************************************************************)
(* Results of calls: a returned value, or a panic.                         *)
(***************************************************************************)
Ok(v) == [ok |-> TRUE, val |-> <<v>>]

Panic == [ok |-> FALSE, val |-> <<>>]

Val(r) == r.val[1]

(***************************************************************************)
(* Program constants                                                       *)
(***************************************************************************)
B13 == 13

B9 == 9

A1 == 2

A2 == 1

A3 == 3

A4 == 2

LaneBits == 64

ThetaChunks == 65

(***************************************************************************)
(* BigUint arithmetic (num-bigint), on 16-bit limbs                        *)
(***************************************************************************)
LimbBits == 16

Limb == 65536

Zero == <<>>

RECURSIVE Normalize(_)
Normalize(s) ==
    IF s = <<>> THEN <<>>
    ELSE IF s[Len(s)] = 0 THEN Normalize(SubSeq(s, 1, Len(s) - 1))
    ELSE s

\* BigUint::from(n) for a machine integer n
RECURSIVE BigFrom(_)
BigFrom(n) ==
    IF n = 0 THEN <<>> ELSE <<n % Limb>> \o BigFrom(n \div Limb)

\* a * m + c for small m, c (the step of from_radix and of scalar products)
RECURSIVE MulAddFrom(_, _, _, _)
MulAddFrom(a, m, carry, i) ==
    IF i > Len(a) THEN BigFrom(carry)
    ELSE LET t == a[i] * m + carry
         IN  <<t % Limb>> \o MulAddFrom(a, m, t \div Limb, i + 1)

MulAdd(a, m, c) == Normalize(MulAddFrom(a, m, c, 1))

MulSmall(a, m) == MulAdd(a, m, 0)

RECURSIVE AddFrom(_, _, _, _)
AddFrom(a, b, carry, i) ==
    IF i > Len(a) /\ i > Len(b) THEN BigFrom(carry)
    ELSE LET x == IF i <= Len(a) THEN a[i] ELSE 0
             y == IF i <= Len(b) THEN b[i] ELSE 0
             t == x + y + carry
         IN  <<t % Limb>> \o AddFrom(a, b, t \div Limb, i + 1)

\* BigUint + BigUint
Add(a, b) == AddFrom(a, b, 0, 1)

RECURSIVE SubFrom(_, _, _, _)
SubFrom(a, b, borrow, i) ==
    IF i > Len(a) THEN <<>>
    ELSE LET t == a[i] - (IF i <= Len(b) THEN b[i] ELSE 0) - borrow
         IN  <<IF t < 0 THEN t + Limb ELSE t>>
                \o SubFrom(a, b, IF t < 0 THEN 1 ELSE 0, i + 1)

\* a - b for a >= b
Sub(a, b) == Normalize(SubFrom(a, b, 0, 1))

\* quotient and remainder of a by a small d, from the top limb down
RECURSIVE DivFrom(_, _, _, _)
DivFrom(a, d, i, rem) ==
    IF i = 0 THEN [q |-> <<>>, r |-> rem]
    ELSE LET cur  == rem * Limb + a[i]
             rest == DivFrom(a, d, i - 1, cur % d)
         IN  [q |-> Append(rest.q, cur \div d), r |-> rest.r]

DivRem(a, d) ==
    LET x == DivFrom(a, d, Len(a), 0) IN [q |-> Normalize(x.q), r |-> x.r]

\* a < b
RECURSIVE LessFrom(_, _, _)
LessFrom(a, b, i) ==
    IF i = 0 THEN FALSE
    ELSE IF a[i] # b[i] THEN a[i] < b[i]
    ELSE LessFrom(a, b, i - 1)

Less(a, b) ==
    IF Len(a) # Len(b) THEN Len(a) < Len(b) ELSE LessFrom(a, b, Len(a))

Reverse(s) == [i \in 1..Len(s) |-> s[Len(s) + 1 - i]]

\* BigUint::pow, by repeated multiplication; st is the loop state
RECURSIVE PowLoop(_, _, _)
PowLoop(b, e, st) ==
    IF st.i = e THEN st.p
    ELSE PowLoop(b, e, [i |-> st.i + 1, p |-> MulSmall(st.p, b)])

Pow(b, e) == PowLoop(b, e, [i |-> 0, p |-> <<1>>])

\* BigUint::to_radix_le: the digits of a, least significant first; [0] for zero
RECURSIVE RadixDigits(_, _)
RadixDigits(a, radix) ==
    IF a = <<>> THEN <<>>
    ELSE LET x == DivRem(a, radix) IN <<x.r>> \o RadixDigits(x.q, radix)

to_radix_le(a, radix) == IF a = <<>> THEN <<0>> ELSE RadixDigits(a, radix)

\* BigUint::to_radix_be
to_radix_be(a, radix) == Reverse(to_radix_le(a, radix))

\* Horner recomposition of big-endian digits; st is the loop state: the
\* next digit's index and the value of the digits before it
RECURSIVE Horner(_, _, _)
Horner(buf, radix, st) ==
    IF st.i > Len(buf) THEN st.v
    ELSE Horner(buf, radix, [i |-> st.i + 1, v |-> MulAdd(st.v, radix, buf[st.i])])

\* from_radix_be recomposing whatever digits it is given, with no digit check
from_radix_be_unchecked(buf, radix) ==
    IF radix < 2 \/ radix > 256 THEN Panic
    ELSE Ok([some |-> TRUE, v |-> Horner(buf, radix, [i |-> 1, v |-> Zero])])

\* BigUint::from_radix_be: panics unless 2 <= radix <= 256; None when a digit
\* is not below the radix; the value of the digits otherwise (0 for no digit)
from_radix_be(buf, radix) ==
    IF radix < 2 \/ radix > 256 THEN Panic
    ELSE IF buf = <<>> THEN Ok([some |-> TRUE, v |-> Zero])
    ELSE IF radix # 256 /\ \E i \in 1..Len(buf) : buf[i] >= radix
         THEN Ok([some |-> FALSE, v |-> Zero])
    ELSE Ok([some |-> TRUE, v |-> Horner(buf, radix, [i |-> 1, v |-> Zero])])

\* BigUint::from_radix_le
from_radix_le(buf, radix) == from_radix_be(Reverse(buf), radix)

\* Option::unwrap_or_default
unwrap_or_default(o) == IF o.some THEN o.v ELSE Zero


(***************************************************************************)
(* u64 words                                                               *)
(***************************************************************************)
BitIdx == 0..(LaneBits - 1)

\* the word whose set bits are the positions in S
WordOf(S) == [i \in BitIdx |-> IF i \in S THEN 1 ELSE 0]

\* a ^ b
Xor(a, b) == [i \in BitIdx |-> (a[i] + b[i]) % 2]

\* f_logic of the A1..A4 doc comment: x1 ^ (!x2 & x3) ^ x4
f_logic(x1, x2, x3, x4) ==
    [i \in BitIdx |-> (x1[i] + ((1 - x2[i]) * x3[i]) + x4[i]) % 2]

Pow2(k) == Pow(2, k)[1]

\* BigUint::iter_u64_digits().take(1).next().unwrap_or(0): the low 64 bits
LowU64(a) ==
    [i \in BitIdx |->
        LET l == (i \div LimbBits) + 1
        IN  IF l > Len(a) THEN 0
            ELSE (a[l] \div Pow2(i % LimbBits)) % 2]

(***************************************************************************)
(* Lane converters                                                         *)
(***************************************************************************)
\* BigUint::from(base).pow(i) for the 64 bit positions, computed once
PowTable == [b \in {B9, B13} |-> [i \in BitIdx |-> Pow(b, i)]]

\* the loop of convert_b2_to_b13 / convert_b2_to_b9 from bit i on:
\* lane += bit * BigUint::from(base).pow(i).
\* st is the loop state: the bit index i and the lane so far
RECURSIVE EncodeFrom(_, _, _)
EncodeFrom(a, base, st) ==
    IF st.i = LaneBits THEN st.lane
    ELSE EncodeFrom(a, base,
            [i    |-> st.i + 1,
             lane |-> Add(st.lane, MulSmall(PowTable[base][st.i], a[st.i]))])

convert_b2_to_b13(a) == EncodeFrom(a, B13, [i |-> 0, lane |-> Zero])

convert_b2_to_b9(a) == EncodeFrom(a, B9, [i |-> 0, lane |-> Zero])

\* convert_b13_coef answering whether any of the summed bits is set
convert_b13_coef_any(x) ==
    IF debug /\ ~(x < 13) THEN Panic ELSE Ok(IF x > 0 THEN 1 ELSE 0)

\* convert_b13_coef asserting x < 12
convert_b13_coef_below12(x) ==
    IF debug /\ ~(x < 12) THEN Panic ELSE Ok(x % 2)

\* debug_assert!(x < 13); x & 1
convert_b13_coef(x) ==
    IF debug /\ ~(x < 13) THEN Panic ELSE Ok(x % 2)

bit_table == <<0, 0, 1, 1, 0, 0, 1, 1, 0>>

\* convert_b9_coef taking the parity of the chunk, as convert_b13_coef does
convert_b9_coef_parity(x) ==
    IF debug /\ ~(x < 9) THEN Panic ELSE Ok(x % 2)

\* debug_assert!(x < 9); bit_table[x as usize]  (the index is bounds-checked)
convert_b9_coef(x) ==
    IF debug /\ ~(x < 9) THEN Panic
    ELSE IF x + 1 > Len(bit_table) THEN Panic
    ELSE Ok(bit_table[x + 1])

\* the coefficient closures passed to convert_lane
Coef(f, x) ==
    CASE f = "convert_b13_coef" -> convert_b13_coef(x)
      [] f = "convert_b9_coef"  -> convert_b9_coef(x)
      [] f = "identity"         -> Ok(x)

\* chunks.iter().map(|&x| f(x)).collect(): panics when f panics on a chunk
MapCoef(f, chunks) ==
    LET r == [i \in 1..Len(chunks) |-> Coef(f, chunks[i])]
    IN  IF \E i \in 1..Len(r) : ~r[i].ok THEN Panic
        ELSE Ok([i \in 1..Len(r) |-> Val(r[i])])

\* convert_lane recomposing the chunks in the wrong (little-endian) order
convert_lane_le(lane, from_base, to_base, coef_transform) ==
    IF from_base < 2 THEN Panic
    ELSE LET chunks    == to_radix_be(lane, from_base)
             converted == MapCoef(coef_transform, chunks)
         IN  IF ~converted.ok THEN Panic
             ELSE LET o == from_radix_le(Val(converted), to_base)
                  IN  IF ~o.ok THEN Panic ELSE Ok(unwrap_or_default(Val(o)))

convert_lane(lane, from_base, to_base, coef_transform) ==
    IF from_base < 2 THEN Panic
    ELSE LET chunks    == to_radix_be(lane, from_base)
             converted == MapCoef(coef_transform, chunks)
         IN  IF ~converted.ok THEN Panic
             ELSE LET o == from_radix_be(Val(converted), to_base)
                  IN  IF ~o.ok THEN Panic ELSE Ok(unwrap_or_default(Val(o)))

convert_b9_lane_to_b13(x) == convert_lane(x, B9, B13, "convert_b9_coef")

convert_b9_lane_to_b2(x) ==
    LET r == convert_lane(x, B9, 2, "convert_b9_coef")
    IN  IF r.ok THEN Ok(LowU64(Val(r))) ELSE Panic

convert_b9_lane_to_b2_normal(x) ==
    LET r == convert_lane(x, B9, 2, "identity")
    IN  IF r.ok THEN Ok(LowU64(Val(r))) ELSE Panic

\* Vec::resize(n, 0): truncate or pad with zeros
Resize(s, n) == [i \in 1..n |-> IF i <= Len(s) THEN s[i] ELSE 0]

\* width of usize on the 64-bit targets the crate is built for
UsizeBits == 64

\* a - b on usize, as a BigUint, saturating at 0
usize_sub_saturating(a, b) == Ok(IF a >= b THEN BigFrom(a - b) ELSE Zero)

\* a - b on usize, as a BigUint: an underflow panics where overflow checks are
\* compiled in, and wraps modulo 2^64 where they are not
usize_sub(a, b) ==
    IF a >= b THEN Ok(BigFrom(a - b))
    ELSE IF debug THEN Panic
    ELSE Ok(Sub(Pow(2, UsizeBits), BigFrom(b - a)))

\* split_at counting mid from the end of the slice
split_at_from_end(slice, mid) ==
    IF Less(BigFrom(Len(slice)), mid) THEN Panic
    ELSE LET k == Len(slice) - (IF mid = Zero THEN 0 ELSE mid[1])
         IN  Ok([left |-> SubSeq(slice, 1, k), right |-> SubSeq(slice, k + 1, Len(slice))])

\* slice::split_at(mid), mid a usize held as a BigUint: panics when mid > len
split_at(slice, mid) ==
    IF Less(BigFrom(Len(slice)), mid) THEN Panic
    ELSE LET k == IF mid = Zero THEN 0 ELSE mid[1]
         IN  Ok([left |-> SubSeq(slice, 1, k), right |-> SubSeq(slice, k + 1, Len(slice))])

\* convert_b13_lane_to_b9 chaining the two halves in the order they were split
convert_b13_lane_to_b9_unswapped(x, rot) ==
    LET chunks  == Resize(to_radix_le(x, B13), ThetaChunks)
        special == chunks[1] + chunks[ThetaChunks]
        middle  == SubSeq(chunks, 2, ThetaChunks - 1)
    IN  IF rot > LaneBits - 1 THEN Panic
        ELSE LET mid     == (LaneBits - 1) - rot
                 left    == SubSeq(middle, 1, mid)
                 right   == SubSeq(middle, mid + 1, Len(middle))
                 rotated == MapCoef("convert_b13_coef", left \o <<special>> \o right)
             IN  IF ~rotated.ok THEN Panic
                 ELSE Ok(unwrap_or_default(Val(from_radix_le(Val(rotated), B9))))

convert_b13_lane_to_b9(x, rot) ==
    LET chunks  == Resize(to_radix_le(x, B13), ThetaChunks)
        special == chunks[1] + chunks[ThetaChunks]
        middle  == SubSeq(chunks, 2, ThetaChunks - 1)
        mid     == usize_sub(LaneBits - 1, rot)
    IN  IF ~mid.ok THEN Panic
        ELSE LET parts == split_at(middle, Val(mid))
             IN  IF ~parts.ok THEN Panic
                 ELSE LET left    == Val(parts).left
                          right   == Val(parts).right
                          rotated == MapCoef("convert_b13_coef", right \o <<special>> \o left)
                      IN  IF ~rotated.ok THEN Panic
                          ELSE Ok(unwrap_or_default(Val(from_radix_le(Val(rotated), B9))))


(***************************************************************************)
(* Sample inputs                                                           *)
(***************************************************************************)
\* longest run of equal bits laid at each edge position of a sample word
MaxRun == 2

\* bit positions at the ends of the word and around its 16- and 32-bit seams
EdgeBits == {0, 1, 15, 16, 31, 32, 47, 62, 63}

RunSets == {{j \in BitIdx : i <= j /\ j < i + k} : i \in EdgeBits, k \in 0..MaxRun}

\* 0, 5, runs of ones, and the complements of all of them (2^64 - 1 included)
BitSets == LET S == RunSets \cup {{0, 2}} IN S \cup {BitIdx \ x : x \in S}

Words == {WordOf(S) : S \in BitSets}

\* the four columns of the 16-row truth table, repeated along the word:
\* at bit i, TruthWord(k) holds bit k of (i mod 16)
TruthWord(k) == [i \in BitIdx |-> ((i % 16) \div Pow2(k)) % 2]

Perms4 == {p \in [1..4 -> 0..3] : \A i, j \in 1..4 : i # j => p[i] # p[j]}

ChiInputs ==
    {[k \in 1..4 |-> TruthWord(p[k])] : p \in Perms4}
    \cup [1..4 -> {WordOf({}), WordOf(BitIdx)}]

NoLane == Zero

NoRet == Panic

SumIdle == /\ summed = <<>>
           /\ acc = Zero
           /\ xored = <<>>

ContainerIdle == container = [xy |-> <<>>]

AccessListIdle == /\ access_list_account = {}
                  /\ access_list_account_storage = {}
                  /\ refund = 0
                  /\ calls = <<>>

DbIdle == /\ state = <<>>
          /\ touched = {}
          /\ AccessListIdle

(***************************************************************************)
(* Codec machine: a word is encoded one bit per digit, or four words are   *)
(* combined arithmetically, and the lane is decoded back to a word.        *)
(***************************************************************************)
CodecInputs ==
    [fn : {"convert_b2_to_b9", "convert_b2_to_b13"}, a : Words]
    \cup {[fn |-> "f_arith", a |-> x] : x \in ChiInputs}

CodecInit ==
    /\ debug \in BOOLEAN
    /\ pc = "input"
    /\ args \in CodecInputs
    /\ big = NoLane
    /\ ret = NoRet
    /\ SumIdle
    /\ ContainerIdle
    /\ DbIdle

EncodeB9 ==
    /\ pc = "input"
    /\ args.fn = "convert_b2_to_b9"
    /\ big' = convert_b2_to_b9(args.a)
    /\ pc' = "lane"
    /\ UNCHANGED <<debug, args, ret, sumVars, container, dbVars>>

EncodeB13 ==
    /\ pc = "input"
    /\ args.fn = "convert_b2_to_b13"
    /\ big' = convert_b2_to_b13(args.a)
    /\ pc' = "lane"
    /\ UNCHANGED <<debug, args, ret, sumVars, container, dbVars>>

\* f_arith of the A1..A4 doc comment, on the base-9 lanes of four words
f_arith(x1, x2, x3, x4) ==
    Add(Add(MulSmall(convert_b2_to_b9(x1), A1), MulSmall(convert_b2_to_b9(x2), A2)),
        Add(MulSmall(convert_b2_to_b9(x3), A3), MulSmall(convert_b2_to_b9(x4), A4)))

CombineB9 ==
    /\ pc = "input"
    /\ args.fn = "f_arith"
    /\ big' = f_arith(args.a[1], args.a[2], args.a[3], args.a[4])
    /\ pc' = "lane"
    /\ UNCHANGED <<debug, args, ret, sumVars, container, dbVars>>

\* convert_b9_lane_to_b2_normal, and the same decoding of a base-13 lane
DecodeNormal ==
    /\ pc = "lane"
    /\ args.fn \in {"convert_b2_to_b9", "convert_b2_to_b13"}
    /\ ret' = IF args.fn = "convert_b2_to_b9"
              THEN convert_b9_lane_to_b2_normal(big)
              ELSE LET r == convert_lane(big, B13, 2, "identity")
                   IN  IF r.ok THEN Ok(LowU64(Val(r))) ELSE Panic
    /\ pc' = "done"
    /\ UNCHANGED <<debug, args, big, sumVars, container, dbVars>>

DecodeB9 ==
    /\ pc = "lane"
    /\ args.fn = "f_arith"
    /\ ret' = convert_b9_lane_to_b2(big)
    /\ pc' = "done"
    /\ UNCHANGED <<debug, args, big, sumVars, container, dbVars>>

CodecNext == EncodeB9 \/ EncodeB13 \/ CombineB9 \/ DecodeNormal \/ DecodeB9

SpecCodec == CodecInit /\ [][CodecNext]_vars


\* the little-endian digits of a, zero-padded to at least n digits
Digits(a, radix, n) ==
    LET d == to_radix_le(a, radix)
    IN  [i \in 1..(IF Len(d) > n THEN Len(d) ELSE n) |->
            IF i <= Len(d) THEN d[i] ELSE 0]

\* C1: a word encoded by convert_b2_to_b9 (convert_b2_to_b13) and decoded by
\* convert_lane(_, 9 (13), 2, identity), low 64 bits taken, is the word itself.
C1_RoundTrip ==
    (pc = "done" /\ args.fn \in {"convert_b2_to_b9", "convert_b2_to_b13"})
        => ret = Ok(args.a)

C1_Witness ==
    /\ pc = "done"
    /\ args.fn = "convert_b2_to_b13"
    /\ args.a = WordOf(BitIdx)
    /\ ret = Ok(WordOf(BitIdx))

\* C4: L = 2*b9(a) + b9(b) + 3*b9(c) + 2*b9(d) has, at every digit i, exactly
\* 2a_i + b_i + 3c_i + 2d_i (nothing carried in or out, so at most 64 digits),
\* and convert_b9_lane_to_b2(L) is a ^ (!b & c) ^ d.
C4_ChiDecode ==
    (pc \in {"lane", "done"} /\ args.fn = "f_arith") =>
        LET a == args.a[1]
            b == args.a[2]
            c == args.a[3]
            d == args.a[4]
            L == Digits(big, B9, LaneBits)
        IN  /\ Len(L) = LaneBits
            /\ \A i \in BitIdx :
                  L[i + 1] = A1 * a[i] + A2 * b[i] + A3 * c[i] + A4 * d[i]
            /\ pc = "done" => ret = Ok(f_logic(a, b, c, d))

C4_Witness ==
    /\ pc = "done"
    /\ args.fn = "f_arith"
    /\ args.a = [k \in 1..4 |-> TruthWord(k - 1)]
    /\ ret.ok
    /\ \E i \in BitIdx : Digits(big, B9, LaneBits)[i + 1] = 8

(***************************************************************************)
(* Sum machine: up to 12 one-bit-per-digit base-13 lanes are added into    *)
(* one accumulator, which convert_b13_coef then decodes digit by digit.    *)
(***************************************************************************)
\* "the arithmatic sum of 12 bits": a base-13 chunk holds at most 12
MaxSummands == 12

SumWords == {WordOf(BitIdx), WordOf({0, 2}), TruthWord(0)}

Total(f) == LET ws == DOMAIN f
            IN  IF ws = {} THEN 0
                ELSE LET RECURSIVE Sum(_)
                         Sum(S) == IF S = {} THEN 0
                                   ELSE LET w == CHOOSE w \in S : TRUE
                                        IN  f[w] + Sum(S \ {w})
                     IN  Sum(ws)

SumInit ==
    /\ debug \in BOOLEAN
    /\ pc = "input"
    /\ args = [fn |-> "sum"]
    /\ big = NoLane
    /\ ret = NoRet
    /\ summed = [w \in SumWords |-> 0]
    /\ acc = Zero
    /\ xored = WordOf({})
    /\ ContainerIdle
    /\ DbIdle

\* one more lane is added into the accumulator
AddLane(w) ==
    /\ pc = "input"
    /\ Total(summed) < MaxSummands
    /\ acc' = Add(acc, convert_b2_to_b13(w))
    /\ xored' = Xor(xored, w)
    /\ summed' = [summed EXCEPT ![w] = @ + 1]
    /\ UNCHANGED <<debug, pc, args, big, ret, container, dbVars>>

\* the accumulator is decoded into base 2 with convert_b13_coef
DecodeSum ==
    /\ pc = "input"
    /\ ret' = LET r == convert_lane(acc, B13, 2, "convert_b13_coef")
              IN  IF r.ok THEN Ok(LowU64(Val(r))) ELSE Panic
    /\ pc' = "done"
    /\ UNCHANGED <<debug, args, big, sumVars, container, dbVars>>

SumNext == (\E w \in SumWords : AddLane(w)) \/ DecodeSum

SpecSum == SumInit /\ [][SumNext]_vars

\* C3: the sum of k <= 12 base-13 encodings has at digit i the number of
\* summed words with bit i set (no carry), and decoding it digit-wise with
\* convert_b13_coef into base 2 yields the XOR of the words.
C3_SumIsXor ==
    (args.fn = "sum") =>
        LET S == Digits(acc, B13, LaneBits)
        IN  /\ Len(S) = LaneBits
            /\ \A i \in BitIdx :
                  S[i + 1] = Total([w \in SumWords |-> summed[w] * w[i]])
            /\ pc = "done" => ret = Ok(xored)

C3_Witness ==
    /\ pc = "done"
    /\ args.fn = "sum"
    /\ summed[WordOf(BitIdx)] = 7
    /\ summed[WordOf({0, 2})] = 3
    /\ summed[TruthWord(0)] = 2
    /\ ret = Ok(xored)
    /\ xored # WordOf({})


(***************************************************************************)
(* Rotation machine: a 65-chunk base-13 lane, as the theta step leaves it, *)
(* is composed from its chunks and handed to convert_b13_lane_to_b9.       *)
(***************************************************************************)
ChunkIdx == 0..(ThetaChunks - 1)

\* the 65 chunks that are 0 except where the pairs <<position, chunk>> of P say
ChunksOf(P) ==
    [i \in 1..ThetaChunks |->
        IF \E p \in P : p[1] = i - 1
        THEN (CHOOSE p \in P : p[1] = i - 1)[2]
        ELSE 0]

\* chunk positions at both ends of the lane and in its middle
EdgeChunks == {0, 1, 2, 31, 32, 62, 63, 64}

\* values of the two boundary chunks 0 and 64; the last three sum to 13 or more
FoldPairs ==
    {<<1, 1>>, <<5, 6>>, <<12, 0>>, <<0, 12>>, <<3, 4>>, <<6, 7>>, <<12, 1>>, <<12, 12>>}

ChunkSeqs ==
    {ChunksOf({<<1, 1>>, <<2, 1>>, <<3, 1>>})}
    \cup {ChunksOf({<<p, 1>>}) : p \in EdgeChunks}
    \cup {ChunksOf({<<0, f[1]>>, <<64, f[2]>>, <<1, 1>>, <<63, 11>>}) : f \in FoldPairs}
    \cup {[i \in 1..ThetaChunks |-> IF i = ThetaChunks THEN 0 ELSE ((i - 1) * 7) % B13],
          [i \in 1..ThetaChunks |-> IF i = ThetaChunks THEN 0 ELSE 12 - ((i - 1) % B13)]}

\* every rotation of the contract, the first two beyond it, and a large u32
Rots == 0..(LaneBits + 1) \cup {Limb * (Limb \div 2 - 1)}

RotateInit ==
    /\ debug \in BOOLEAN
    /\ pc = "input"
    /\ args \in [fn : {"convert_b13_lane_to_b9"}, chunks : ChunkSeqs, rot : Rots]
    /\ big = NoLane
    /\ ret = NoRet
    /\ SumIdle
    /\ ContainerIdle
    /\ DbIdle

\* BigUint::from_radix_le(&chunks, B13.into()).unwrap_or_default()
ComposeB13 ==
    /\ pc = "input"
    /\ args.fn = "convert_b13_lane_to_b9"
    /\ big' = unwrap_or_default(Val(from_radix_le(args.chunks, B13)))
    /\ pc' = "lane"
    /\ UNCHANGED <<debug, args, ret, sumVars, container, dbVars>>

Rotate ==
    /\ pc = "lane"
    /\ args.fn = "convert_b13_lane_to_b9"
    /\ ret' = convert_b13_lane_to_b9(big, args.rot)
    /\ pc' = "done"
    /\ UNCHANGED <<debug, args, big, sumVars, container, dbVars>>

RotateNext == ComposeB13 \/ Rotate

SpecRotate == RotateInit /\ [][RotateNext]_vars

\* the folded 64 chunks: e[0] = d[0] + d[64], e[i] = d[i] for i >= 1
Folded(d) == [i \in BitIdx |-> IF i = 0 THEN d[1] + d[ThetaChunks] ELSE d[i + 1]]

\* C2: for a lane of 65 base-13 chunks d with d[0] + d[64] < 13 and rot in
\* 0..63, convert_b13_lane_to_b9 returns the base-9 number of 64 digits whose
\* digit (i + rot) mod 64 is the parity of e[i]: the folded chunks rotated
\* left by rot positions, with wraparound.
C2_RotateLeft ==
    ( /\ pc = "done"
      /\ args.fn = "convert_b13_lane_to_b9"
      /\ args.rot <= LaneBits - 1
      /\ args.chunks[1] + args.chunks[ThetaChunks] < B13 ) =>
        /\ ret.ok
        /\ LET e == Folded(args.chunks)
               r == Digits(Val(ret), B9, LaneBits)
           IN  /\ Len(r) = LaneBits
               /\ \A i \in BitIdx : r[((i + args.rot) % LaneBits) + 1] = e[i] % 2

\* rot = 4 on the chunks [0, 1, 1, 1]: chunks 1, 2, 3 arrive at digits 5, 6, 7
C2_Witness ==
    /\ pc = "done"
    /\ args.fn = "convert_b13_lane_to_b9"
    /\ args.chunks = ChunksOf({<<1, 1>>, <<2, 1>>, <<3, 1>>})
    /\ args.rot = 4
    /\ ret.ok
    /\ Digits(Val(ret), B9, LaneBits) = [i \in 1..LaneBits |-> IF i \in {6, 7, 8} THEN 1 ELSE 0]


(***************************************************************************)
(* StateBigInt: the 5 x 5 container of lanes, and the field-element bridge *)
(***************************************************************************)
\* Vec::with_capacity(25); for _ in 0..25
StateLanes == 25

\* (0..5).cartesian_product(0..5); debug_assert!(xy.0 < 5); xy.0 * 5 + xy.1
StateSide == 5

\* the width of a field element's representation: [0u8; 32]
ReprBytes == 32

\* the modulus of the scalar field the circuits are instantiated with
\* (BN254 Fr, 254 bits), as a BigUint
FieldModulus ==
    <<1, 61440, 62867, 17377, 28817, 31161, 59464, 10291,
      22621, 33153, 17846, 47184, 41001, 57649, 20082, 12388>>

\* BigUint::to_bytes_le: little-endian bytes, no trailing zero byte; [0] for zero
to_bytes_le(a) ==
    IF a = Zero THEN <<0>>
    ELSE LET b == [i \in 1..(2 * Len(a)) |->
                      IF i % 2 = 1 THEN a[(i + 1) \div 2] % 256
                      ELSE a[i \div 2] \div 256]
         IN  IF b[Len(b)] = 0 THEN SubSeq(b, 1, Len(b) - 1) ELSE b

\* BigUint::from_bytes_le
from_bytes_le(bytes) ==
    Normalize([k \in 1..((Len(bytes) + 1) \div 2) |->
                  bytes[2 * k - 1]
                  + (IF 2 * k <= Len(bytes) THEN 256 * bytes[2 * k] ELSE 0)])

\* BigUint::from(u64)
BigFromU64(w) ==
    LET RECURSIVE LimbOf(_, _)
        LimbOf(l, j) == IF j = LimbBits THEN 0
                        ELSE w[l * LimbBits + j] * Pow2(j) + LimbOf(l, j + 1)
    IN  Normalize([l \in 1..(LaneBits \div LimbBits) |-> LimbOf(l - 1, 0)])

\* A field element is modelled by its canonical value, a BigUint below the modulus.
\* Field::to_repr: the value's 32 little-endian bytes
to_repr(elem) ==
    LET b == to_bytes_le(elem)
    IN  [i \in 1..ReprBytes |-> IF i <= Len(b) THEN b[i] ELSE 0]

\* Field::from_repr: None unless the bytes are the canonical form of an element
from_repr(bytes) ==
    LET v == from_bytes_le(bytes)
    IN  IF Less(v, FieldModulus) THEN [some |-> TRUE, v |-> v]
        ELSE [some |-> FALSE, v |-> Zero]

\* impl Default for StateBigInt
StateBigInt_default == [xy |-> [i \in 1..StateLanes |-> Zero]]

\* impl From<State> for StateBigInt: state.iter().flatten(), row by row
StateBigInt_from(matrix) ==
    [xy |-> [i \in 1..(StateSide * StateSide) |->
                BigFromU64(matrix[(i - 1) \div StateSide][(i - 1) % StateSide])]]

\* impl Index<(usize, usize)>: the lane, or a panic
index(s, x, y) ==
    IF debug /\ ~(x < StateSide) THEN Panic
    ELSE IF debug /\ ~(y < StateSide) THEN Panic
    ELSE IF x * 5 + y >= Len(s.xy) THEN Panic
    ELSE Ok(s.xy[x * 5 + y + 1])

\* impl IndexMut<(usize, usize)>, followed by the assignment of v through the
\* reference: the container after the write, or a panic
index_mut(s, x, y, v) ==
    IF debug /\ ~(x < StateSide) THEN Panic
    ELSE IF debug /\ ~(y < StateSide) THEN Panic
    ELSE IF x * 5 + y >= Len(s.xy) THEN Panic
    ELSE Ok([xy |-> [s.xy EXCEPT ![x * 5 + y + 1] = v]])

\* the lane_transform closures of the scenarios
lane_transform(f, v) ==
    CASE f = "double" -> MulSmall(v, 2)
      [] f = "halve"  -> DivRem(v, 2).q
      [] f = "succ"   -> MulAdd(v, 1, 1)

\* the loop of from_state_big_int; st is the loop state: k counts the
\* coordinates done, in the order of cartesian_product, and out is the result
RECURSIVE TransformFrom(_, _, _)
TransformFrom(a, f, st) ==
    IF st.k = StateSide * StateSide \/ ~st.out.ok THEN st.out
    ELSE LET x   == st.k \div StateSide
             y   == st.k % StateSide
             src == index(a, x, y)
         IN  TransformFrom(a, f,
                [k   |-> st.k + 1,
                 out |-> IF ~src.ok THEN Panic
                         ELSE index_mut(Val(st.out), x, y, lane_transform(f, Val(src)))])

\* from_state_big_int writing each transformed lane at the transposed coordinate
from_state_big_int_transposed(a, f) ==
    LET r == TransformFrom(a, f, [k |-> 0, out |-> Ok(StateBigInt_default)])
    IN  IF ~r.ok THEN Panic
        ELSE Ok([xy |-> [i \in 1..StateLanes |->
                    Val(r).xy[((i - 1) % StateSide) * StateSide + ((i - 1) \div StateSide) + 1]]])

from_state_big_int(a, f) ==
    TransformFrom(a, f, [k |-> 0, out |-> Ok(StateBigInt_default)])

\* impl Clone for StateBigInt
clone(s) == [xy |-> s.xy]

\* state_to_biguint reading each representation as big-endian bytes
state_to_biguint_be(elems) ==
    [xy |-> [i \in 1..Len(elems) |-> from_bytes_le(Reverse(to_repr(elems[i])))]]

\* state_to_biguint::<F, N>: one lane per element of the array
state_to_biguint(elems) ==
    [xy |-> [i \in 1..Len(elems) |-> from_bytes_le(to_repr(elems[i]))]]

\* state_bigint_to_field converting only the N lanes it returns
state_bigint_to_field_lazy(s, N) ==
    LET vector == [i \in 1..N |->
                      IF i > Len(s.xy) THEN Panic
                      ELSE LET bytes == to_bytes_le(s.xy[i])
                           IN  IF Len(bytes) > ReprBytes THEN Panic
                               ELSE LET o == from_repr([j \in 1..ReprBytes |->
                                                 IF j <= Len(bytes) THEN bytes[j] ELSE 0])
                                    IN  IF o.some THEN Ok(o.v) ELSE Panic]
    IN  IF \E i \in 1..N : ~vector[i].ok THEN Panic
        ELSE Ok([i \in 1..N |-> Val(vector[i])])

\* state_bigint_to_field::<F, N>: every lane of the container is converted
\* (copy_from_slice panics on more than 32 bytes, unwrap on a None), then the
\* first N elements are copied out (the slice vector[0..N] panics when N is
\* more than the number of lanes)
state_bigint_to_field(s, N) ==
    LET vector == [i \in 1..Len(s.xy) |->
                      LET bytes == to_bytes_le(s.xy[i])
                      IN  IF Len(bytes) > ReprBytes THEN Panic
                          ELSE LET array == [j \in 1..ReprBytes |->
                                                IF j <= Len(bytes) THEN bytes[j] ELSE 0]
                                   o     == from_repr(array)
                               IN  IF o.some THEN Ok(o.v) ELSE Panic]
    IN  IF \E i \in 1..Len(vector) : ~vector[i].ok THEN Panic
        ELSE IF N > Len(vector) THEN Panic
        ELSE Ok([i \in 1..N |-> Val(vector[i])])


(***************************************************************************)
(* Container machine: the program holds one StateBigInt and makes one call *)
(* at a time on it; a call returns (and its result is dropped before the   *)
(* next call) or panics, which ends the program.                           *)
(***************************************************************************)
\* the largest coordinate the scenarios read at (5 and above are out of range)
MaxCoord == 7

CoordRange == 0..MaxCoord

\* coordinates written to: two in range, three out of range
WriteCoords == {<<1, 2>>, <<4, 4>>, <<0, 7>>, <<5, 0>>, <<4, 5>>}

\* lane values: a small one, the largest below the field modulus, the modulus
\* itself, and 2^256, which needs 33 bytes
LaneVals ==
    {<<5>>,
     [i \in 1..Len(FieldModulus) |-> IF i = 1 THEN 0 ELSE FieldModulus[i]],
     FieldModulus,
     [i \in 1..17 |-> IF i = 17 THEN 1 ELSE 0]}

\* a State whose 25 words all differ, and the State of all-ones words
SampleStates ==
    {[x \in 0..4 |-> [y \in 0..4 |-> WordOf({x * 5 + y, 40 + x, 63})]],
     [x \in 0..4 |-> [y \in 0..4 |-> WordOf(BitIdx)]]}

\* element counts N of the const-generic array functions
ElemCounts == {0, 1, 17, 25, 26}

\* an array of N distinct field elements
SampleElems(N) == [i \in 1..N |-> <<100 + i, i>>]

Transforms == {"double", "succ"}

Inverse(f) == IF f = "double" THEN "halve" ELSE "none"

NoCall == [fn |-> "none"]

Unit == <<>>

After(r) == IF r.ok THEN "returned" ELSE "aborted"

StateInit ==
    /\ debug \in BOOLEAN
    /\ pc = "idle"
    /\ args = NoCall
    /\ big = NoLane
    /\ ret = NoRet
    /\ SumIdle
    /\ container = StateBigInt_default
    /\ DbIdle

\* container = StateBigInt::default()
CallDefault ==
    /\ pc = "idle"
    /\ args' = [fn |-> "default"]
    /\ container' = StateBigInt_default
    /\ ret' = Ok(container')
    /\ pc' = "returned"
    /\ UNCHANGED <<debug, big, sumVars, dbVars>>

\* container = StateBigInt::from(matrix), matrix a State
CallFrom(matrix) ==
    /\ pc = "idle"
    /\ args' = [fn |-> "from", matrix |-> matrix]
    /\ container' = StateBigInt_from(matrix)
    /\ ret' = Ok(container')
    /\ pc' = "returned"
    /\ UNCHANGED <<debug, big, sumVars, dbVars>>

\* container = state_to_biguint::<F, N>(elems)
CallStateToBiguint(N) ==
    /\ pc = "idle"
    /\ args' = [fn |-> "state_to_biguint", src |-> "elems", n |-> N]
    /\ container' = state_to_biguint(SampleElems(N))
    /\ ret' = Ok(container')
    /\ pc' = "returned"
    /\ UNCHANGED <<debug, big, sumVars, dbVars>>

\* container[(x, y)] = v
CallIndexMut(x, y, v) ==
    /\ pc = "idle"
    /\ args' = [fn |-> "index_mut", x |-> x, y |-> y, v |-> v, a |-> container]
    /\ LET r == index_mut(container, x, y, v)
       IN  /\ container' = IF r.ok THEN Val(r) ELSE container
           /\ ret' = IF r.ok THEN Ok(Unit) ELSE Panic
           /\ pc' = After(r)
    /\ UNCHANGED <<debug, big, sumVars, dbVars>>

\* container[(x, y)]
CallIndex(x, y) ==
    /\ pc = "idle"
    /\ args' = [fn |-> "index", x |-> x, y |-> y]
    /\ ret' = index(container, x, y)
    /\ pc' = After(ret')
    /\ UNCHANGED <<debug, big, sumVars, container, dbVars>>

\* StateBigInt::from_state_big_int(&container, f)
CallFromStateBigInt(f) ==
    /\ pc = "idle"
    /\ args' = [fn |-> "from_state_big_int", f |-> f, a |-> container]
    /\ ret' = from_state_big_int(container, f)
    /\ pc' = After(ret')
    /\ UNCHANGED <<debug, big, sumVars, container, dbVars>>

\* container.clone()
CallClone ==
    /\ pc = "idle"
    /\ args' = [fn |-> "clone"]
    /\ ret' = Ok(clone(container))
    /\ pc' = "returned"
    /\ UNCHANGED <<debug, big, sumVars, container, dbVars>>

\* state_bigint_to_field::<F, N>(container.clone())
CallStateBigintToField(N) ==
    /\ pc = "idle"
    /\ args' = [fn |-> "state_bigint_to_field", n |-> N]
    /\ ret' = state_bigint_to_field(clone(container), N)
    /\ pc' = After(ret')
    /\ UNCHANGED <<debug, big, sumVars, container, dbVars>>

\* state_to_biguint::<F, N>(elems) on the array state_bigint_to_field returned
CallStateToBiguintBack ==
    /\ pc = "returned"
    /\ args.fn = "state_bigint_to_field"
    /\ args' = [fn |-> "state_to_biguint", src |-> "state_bigint_to_field", n |-> args.n]
    /\ ret' = Ok(state_to_biguint(Val(ret)))
    /\ UNCHANGED <<debug, pc, big, sumVars, container, dbVars>>

\* the result of the last call goes out of scope
Drop ==
    /\ pc = "returned"
    /\ pc' = "idle"
    /\ args' = NoCall
    /\ ret' = NoRet
    /\ UNCHANGED <<debug, big, sumVars, container, dbVars>>

StateNext ==
    \/ CallDefault
    \/ \E matrix \in SampleStates : CallFrom(matrix)
    \/ \E N \in ElemCounts : CallStateToBiguint(N)
    \/ \E c \in WriteCoords, v \in LaneVals : CallIndexMut(c[1], c[2], v)
    \/ \E x, y \in CoordRange : CallIndex(x, y)
    \/ \E f \in Transforms : CallFromStateBigInt(f)
    \/ CallClone
    \/ \E N \in ElemCounts : CallStateBigintToField(N)
    \/ CallStateToBiguintBack
    \/ Drop

SpecState == StateInit /\ [][StateNext]_vars


\* a lane state_bigint_to_field cannot represent: more than 32 bytes, or not
\* below the field modulus
Unrepresentable(v) ==
    Len(to_bytes_le(v)) > ReprBytes \/ ~Less(v, FieldModulus)

\* C5: state_bigint_to_field panics when any lane of the container, whether
\* or not among the N returned, needs more than 32 bytes or is not below the
\* field modulus; what it returns is, element for element, the lanes' values.
C5_NoTruncation ==
    (pc \in {"returned", "aborted"} /\ args.fn = "state_bigint_to_field") =>
        /\ (\E i \in 1..Len(container.xy) : Unrepresentable(container.xy[i]))
              => (ret = Panic /\ pc = "aborted")
        /\ ret.ok => /\ Len(Val(ret)) = args.n
                     /\ \A i \in 1..args.n : Val(ret)[i] = container.xy[i]

\* N = 17 and only the last lane, (4, 4), is the modulus itself
C5_Witness ==
    /\ pc = "aborted"
    /\ args.fn = "state_bigint_to_field"
    /\ args.n = 17
    /\ Len(container.xy) = StateLanes
    /\ container.xy[StateLanes] = FieldModulus
    /\ \A i \in 1..(StateLanes - 1) : ~Unrepresentable(container.xy[i])
    /\ ret = Panic

RoundTripped ==
    /\ pc = "returned"
    /\ args.fn = "state_to_biguint"
    /\ args.src = "state_bigint_to_field"
    /\ Len(container.xy) = StateLanes
    /\ \A i \in 1..StateLanes : Less(container.xy[i], FieldModulus)

\* C6 as stated: for a container s of 25 lanes below the field modulus,
\* state_to_biguint(state_bigint_to_field(s)) equals s lane for lane.
C6_RoundTripAnyCount ==
    RoundTripped => Val(ret) = container

\* C6 amended: with the element count N = 25 the round trip equals s lane for
\* lane; with N < 25 it holds only the first N lanes of s, at the same offsets.
C6_RoundTrip25 ==
    RoundTripped =>
        /\ args.n = StateLanes => Val(ret) = container
        /\ args.n < StateLanes => Val(ret).xy = SubSeq(container.xy, 1, args.n)

C6_Witness ==
    /\ RoundTripped
    /\ args.n = StateLanes
    /\ container.xy[1] # Zero
    /\ container.xy[8] = [i \in 1..Len(FieldModulus) |-> IF i = 1 THEN 0 ELSE FieldModulus[i]]
    /\ Val(ret) = container

\* C7 as stated: every StateBigInt an operation produces holds exactly 25
\* lanes, and the default container holds 25 zero lanes.
C7_TwentyFiveLanes ==
    /\ Len(container.xy) = StateLanes
    /\ (pc = "returned"
        /\ args.fn \in {"default", "from", "state_to_biguint", "from_state_big_int", "clone"})
          => Len(Val(ret).xy) = StateLanes
    /\ (pc = "returned" /\ args.fn = "default")
          => \A i \in 1..StateLanes : Val(ret).xy[i] = Zero

\* C8: from_state_big_int(a, f) on a container a of 25 lanes returns a
\* container whose lane at every (x, y) is f of a's lane at (x, y), and a is
\* as it was; applying the inverse of f to the result gives back a.
C8_Transform ==
    (pc \in {"returned", "aborted"}
     /\ args.fn = "from_state_big_int"
     /\ Len(args.a.xy) = StateLanes) =>
        /\ pc = "returned"
        /\ ret.ok
        /\ Len(Val(ret).xy) = StateLanes
        /\ \A x, y \in 0..(StateSide - 1) :
              Val(ret).xy[x * StateSide + y + 1]
                  = lane_transform(args.f, args.a.xy[x * StateSide + y + 1])
        /\ container = args.a
        /\ Inverse(args.f) # "none"
              => from_state_big_int(Val(ret), Inverse(args.f)) = Ok(args.a)

C8_Witness ==
    /\ pc = "returned"
    /\ args.fn = "from_state_big_int"
    /\ args.f = "double"
    /\ args.a.xy[8] = <<5>>
    /\ args.a.xy[2] = BigFromU64(WordOf({1, 40, 63}))
    /\ Val(ret).xy[8] = <<10>>
    /\ container = args.a

\* C9 as stated: an access at (x, y) with x >= 5 or y >= 5 panics; it returns
\* no lane and writes none.
C9_OutOfRangeIsFatal ==
    (pc \in {"returned", "aborted"}
     /\ args.fn \in {"index", "index_mut"}
     /\ (args.x >= StateSide \/ args.y >= StateSide)) =>
        /\ pc = "aborted"
        /\ ret = Panic
        /\ args.fn = "index_mut" => container = args.a


(***************************************************************************)
(* StateDB: the in-memory accounts and their storage                       *)
(***************************************************************************)
Addrs == {"addr_a", "addr_b"}

Keys == {2, 3}

\* the largest nonce an account of the scenarios reaches
MaxNonce == 2

CODE_HASH_ZERO == "keccak256([])"

EmptyMap == [k \in {} |-> 0]

VALUE_ZERO == 0

\* Account::zero()
Account_zero ==
    [nonce |-> 0, balance |-> 0, storage |-> EmptyMap, code_hash |-> CODE_HASH_ZERO]

ACCOUNT_ZERO == Account_zero

\* HashMap::insert
Insert(map, k, v) == [x \in (DOMAIN map) \cup {k} |-> IF x = k THEN v ELSE map[x]]

\* the accounts set_account is called with
SampleAccounts ==
    {Account_zero,
     [nonce |-> 1, balance |-> 7, storage |-> Insert(EmptyMap, 3, 102), code_hash |-> "code"]}

\* StateDB::new()
StateDB_new == EmptyMap

set_account(s, addr, account) == Insert(s, addr, account)

\* (found, &Account)
get_account(s, addr) ==
    IF addr \in DOMAIN s THEN <<TRUE, s[addr]>> ELSE <<FALSE, ACCOUNT_ZERO>>

\* the state after the call, and (found, &mut Account)
get_account_mut(s, addr) ==
    LET found == addr \in DOMAIN s
        s1    == IF found THEN s ELSE Insert(s, addr, Account_zero)
    IN  [state |-> s1, ret |-> <<found, s1[addr]>>]

\* (found, &Word)
get_storage(s, addr, key) ==
    LET account == get_account(s, addr)[2]
    IN  IF key \in DOMAIN account.storage THEN <<TRUE, account.storage[key]>>
        ELSE <<FALSE, VALUE_ZERO>>

\* get_storage_mut answering found once the key is in the storage
get_storage_mut_late(s, addr, key) ==
    LET s1      == get_account_mut(s, addr).state
        storage == IF key \in DOMAIN s1[addr].storage THEN s1[addr].storage
                   ELSE Insert(s1[addr].storage, key, 0)
        found   == key \in DOMAIN storage
    IN  [state |-> [s1 EXCEPT ![addr].storage = storage],
         ret   |-> <<found, storage[key]>>]

\* the state after the call, and (found, &mut Word)
get_storage_mut(s, addr, key) ==
    LET s1      == get_account_mut(s, addr).state
        found   == key \in DOMAIN s1[addr].storage
        storage == IF found THEN s1[addr].storage
                   ELSE Insert(s1[addr].storage, key, 0)
    IN  [state |-> [s1 EXCEPT ![addr].storage = storage],
         ret   |-> <<found, storage[key]>>]

\* the state after the call, and the previous nonce
increase_nonce(s, addr) ==
    LET s1 == get_account_mut(s, addr).state
    IN  [state |-> [s1 EXCEPT ![addr].nonce = @ + 1],
         ret   |-> s1[addr].nonce]

DbInit ==
    /\ debug \in BOOLEAN
    /\ pc = "idle"
    /\ args = NoCall
    /\ big = NoLane
    /\ ret = NoRet
    /\ SumIdle
    /\ ContainerIdle
    /\ state = StateDB_new
    /\ touched = {}
    /\ AccessListIdle

CallSetAccount(addr, account) ==
    /\ pc = "idle"
    /\ args' = [fn |-> "set_account", addr |-> addr, before |-> state]
    /\ state' = set_account(state, addr, account)
    /\ touched' = touched \cup {addr}
    /\ ret' = Ok(Unit)
    /\ pc' = "returned"
    /\ UNCHANGED <<debug, big, sumVars, container, alVars>>

CallGetAccount(addr) ==
    /\ pc = "idle"
    /\ args' = [fn |-> "get_account", addr |-> addr, before |-> state]
    /\ ret' = Ok(get_account(state, addr))
    /\ pc' = "returned"
    /\ UNCHANGED <<debug, big, sumVars, container, dbVars>>

CallGetAccountMut(addr) ==
    /\ pc = "idle"
    /\ args' = [fn |-> "get_account_mut", addr |-> addr, before |-> state]
    /\ LET r == get_account_mut(state, addr)
       IN  /\ state' = r.state
           /\ ret' = Ok(r.ret)
    /\ touched' = touched \cup {addr}
    /\ pc' = "returned"
    /\ UNCHANGED <<debug, big, sumVars, container, alVars>>

\* acc.nonce = n, through the reference get_account_mut returned
AssignNonce(n) ==
    /\ pc = "returned"
    /\ args.fn = "get_account_mut"
    /\ args' = [fn |-> "assign", addr |-> args.addr]
    /\ state' = [state EXCEPT ![args.addr].nonce = n]
    /\ ret' = Ok(Unit)
    /\ UNCHANGED <<debug, pc, big, sumVars, container, touched, alVars>>

CallGetStorage(addr, key) ==
    /\ pc = "idle"
    /\ args' = [fn |-> "get_storage", addr |-> addr, key |-> key, before |-> state]
    /\ ret' = Ok(get_storage(state, addr, key))
    /\ pc' = "returned"
    /\ UNCHANGED <<debug, big, sumVars, container, dbVars>>

CallGetStorageMut(addr, key) ==
    /\ pc = "idle"
    /\ args' = [fn |-> "get_storage_mut", addr |-> addr, key |-> key, before |-> state]
    /\ LET r == get_storage_mut(state, addr, key)
       IN  /\ state' = r.state
           /\ ret' = Ok(r.ret)
    /\ touched' = touched \cup {addr}
    /\ pc' = "returned"
    /\ UNCHANGED <<debug, big, sumVars, container, alVars>>

\* *value = w, through the reference get_storage_mut returned
AssignValue(w) ==
    /\ pc = "returned"
    /\ args.fn = "get_storage_mut"
    /\ args' = [fn |-> "assign", addr |-> args.addr]
    /\ state' = [state EXCEPT ![args.addr].storage[args.key] = w]
    /\ ret' = Ok(Unit)
    /\ UNCHANGED <<debug, pc, big, sumVars, container, touched, alVars>>

CallIncreaseNonce(addr) ==
    /\ pc = "idle"
    /\ get_account(state, addr)[2].nonce < MaxNonce
    /\ args' = [fn |-> "increase_nonce", addr |-> addr, before |-> state]
    /\ LET r == increase_nonce(state, addr)
       IN  /\ state' = r.state
           /\ ret' = Ok(r.ret)
    /\ touched' = touched \cup {addr}
    /\ pc' = "returned"
    /\ UNCHANGED <<debug, big, sumVars, container, alVars>>

DbNext ==
    \/ \E addr \in Addrs, account \in SampleAccounts : CallSetAccount(addr, account)
    \/ \E addr \in Addrs : CallGetAccount(addr)
    \/ \E addr \in Addrs : CallGetAccountMut(addr)
    \/ \E n \in 0..MaxNonce : AssignNonce(n)
    \/ \E addr \in Addrs, key \in Keys : CallGetStorage(addr, key)
    \/ \E addr \in Addrs, key \in Keys : CallGetStorageMut(addr, key)
    \/ \E w \in {101, 102} : AssignValue(w)
    \/ \E addr \in Addrs : CallIncreaseNonce(addr)
    \/ Drop

SpecDB == DbInit /\ [][DbNext]_vars

\* C10: get_account(addr) answers found exactly for the addresses an earlier
\* set_account, get_account_mut, get_storage_mut or increase_nonce was called
\* on, and (false, the zero account) for the others; get_account and
\* get_storage leave the state as it was; get_account_mut and get_storage_mut
\* on a missing address or key return false with a zero value, and the next
\* read of that address or key answers found.
C10_FoundIffTouched ==
    /\ \A addr \in Addrs :
          /\ get_account(state, addr)[1] = (addr \in touched)
          /\ addr \notin touched => get_account(state, addr) = <<FALSE, Account_zero>>
    /\ (pc = "returned" /\ args.fn \in {"get_account", "get_storage"})
          => state = args.before
    /\ (pc = "returned" /\ args.fn = "get_account_mut" /\ args.addr \notin DOMAIN args.before)
          => /\ ret = Ok(<<FALSE, Account_zero>>)
             /\ get_account(state, args.addr)[1]
    /\ (pc = "returned" /\ args.fn = "get_storage_mut"
        /\ ~get_storage(args.before, args.addr, args.key)[1])
          => /\ ret = Ok(<<FALSE, 0>>)
             /\ get_account(state, args.addr)[1]
             /\ get_storage(state, args.addr, args.key) = <<TRUE, 0>>

\* get_storage_mut on addr_b, which no call had touched, after addr_a was set
C10_Witness ==
    /\ pc = "returned"
    /\ args.fn = "get_storage_mut"
    /\ args.addr = "addr_b"
    /\ args.key = 3
    /\ DOMAIN args.before = {"addr_a"}
    /\ ret = Ok(<<FALSE, 0>>)
    /\ touched = {"addr_a", "addr_b"}
    /\ get_storage(state, "addr_b", 3) = <<TRUE, 0>>
    /\ get_storage(state, "addr_b", 2) = <<FALSE, 0>>


(***************************************************************************)
(* StateDB: the access lists of a transaction                              *)
(***************************************************************************)
\* the (addr, key) pairs the storage access list is called with
AccessPairs == {<<"addr_a", 2>>, <<"addr_b", 3>>}

\* how many of the last calls the history keeps
CallsKept == 3

\* HashSet::insert: the set after the call, and whether the value was new
HashSet_insert(set, v) == [set |-> set \cup {v}, ret |-> v \notin set]

\* HashSet::remove: the set after the call, and whether the value was present
HashSet_remove(set, v) == [set |-> set \ {v}, ret |-> v \in set]

\* debug_assert!(cond) around a call with a side effect: with debug
\* assertions the call is made and a false result panics; without them the
\* macro's argument is not evaluated, so the call is not made at all
debug_assert_call(before, r) ==
    IF debug
    THEN [set |-> r.set, ret |-> IF r.ret THEN Ok(Unit) ELSE Panic]
    ELSE [set |-> before, ret |-> Ok(Unit)]

add_account_to_access_list(list, addr) == HashSet_insert(list, addr)

remove_account_from_access_list(list, addr) ==
    debug_assert_call(list, HashSet_remove(list, addr))

add_account_storage_to_access_list(list, pair) == HashSet_insert(list, pair)

remove_account_storage_from_access_list(list, pair) ==
    debug_assert_call(list, HashSet_remove(list, pair))

\* the last CallsKept calls, oldest first
Record(c) ==
    IF Len(calls) < CallsKept THEN Append(calls, c) ELSE Append(Tail(calls), c)

AccessListInit ==
    /\ debug \in BOOLEAN
    /\ pc = "idle"
    /\ args = NoCall
    /\ big = NoLane
    /\ ret = NoRet
    /\ SumIdle
    /\ ContainerIdle
    /\ state = StateDB_new
    /\ touched = {}
    /\ AccessListIdle

CallAddAccount(addr) ==
    /\ pc = "idle"
    /\ args' = [fn |-> "add_account_to_access_list", v |-> addr]
    /\ LET r == add_account_to_access_list(access_list_account, addr)
       IN  /\ access_list_account' = r.set
           /\ ret' = Ok(r.ret)
           /\ calls' = Record([fn |-> "add", v |-> addr, ret |-> Ok(r.ret)])
    /\ pc' = "returned"
    /\ UNCHANGED <<debug, big, sumVars, container, state, touched,
                   access_list_account_storage, refund>>

CallRemoveAccount(addr) ==
    /\ pc = "idle"
    /\ args' = [fn |-> "remove_account_from_access_list", v |-> addr]
    /\ LET r == remove_account_from_access_list(access_list_account, addr)
       IN  /\ access_list_account' = r.set
           /\ ret' = r.ret
           /\ calls' = Record([fn |-> "remove", v |-> addr, ret |-> r.ret])
           /\ pc' = After(r.ret)
    /\ UNCHANGED <<debug, big, sumVars, container, state, touched,
                   access_list_account_storage, refund>>

CallAddAccountStorage(pair) ==
    /\ pc = "idle"
    /\ args' = [fn |-> "add_account_storage_to_access_list", v |-> pair]
    /\ LET r == add_account_storage_to_access_list(access_list_account_storage, pair)
       IN  /\ access_list_account_storage' = r.set
           /\ ret' = Ok(r.ret)
           /\ calls' = Record([fn |-> "add_storage", v |-> pair, ret |-> Ok(r.ret)])
    /\ pc' = "returned"
    /\ UNCHANGED <<debug, big, sumVars, container, state, touched,
                   access_list_account, refund>>

CallRemoveAccountStorage(pair) ==
    /\ pc = "idle"
    /\ args' = [fn |-> "remove_account_storage_from_access_list", v |-> pair]
    /\ LET r == remove_account_storage_from_access_list(access_list_account_storage, pair)
       IN  /\ access_list_account_storage' = r.set
           /\ ret' = r.ret
           /\ calls' = Record([fn |-> "remove_storage", v |-> pair, ret |-> r.ret])
           /\ pc' = After(r.ret)
    /\ UNCHANGED <<debug, big, sumVars, container, state, touched,
                   access_list_account, refund>>

CallRefund ==
    /\ pc = "idle"
    /\ args' = [fn |-> "refund"]
    /\ ret' = Ok(refund)
    /\ pc' = "returned"
    /\ UNCHANGED <<debug, big, sumVars, container, dbVars>>

CallClearAccessListAndRefund ==
    /\ pc = "idle"
    /\ args' = [fn |-> "clear_access_list_and_refund"]
    /\ access_list_account' = {}
    /\ access_list_account_storage' = {}
    /\ refund' = 0
    /\ ret' = Ok(Unit)
    /\ calls' = Record([fn |-> "clear", v |-> Unit, ret |-> Ok(Unit)])
    /\ pc' = "returned"
    /\ UNCHANGED <<debug, big, sumVars, container, state, touched>>

AccessListNext ==
    \/ \E addr \in Addrs : CallAddAccount(addr)
    \/ \E addr \in Addrs : CallRemoveAccount(addr)
    \/ \E pair \in AccessPairs : CallAddAccountStorage(pair)
    \/ \E pair \in AccessPairs : CallRemoveAccountStorage(pair)
    \/ CallRefund
    \/ CallClearAccessListAndRefund
    \/ Drop

SpecAccessList == AccessListInit /\ [][AccessListNext]_vars

\* the three last calls were add(v), remove(v), add(v) on one list, all of
\* them returned
AddRemoveAdd(add, remove, v) ==
    LET n == Len(calls)
    IN  /\ n >= 3
        /\ calls[n - 2].fn = add /\ calls[n - 2].v = v
        /\ calls[n - 1].fn = remove /\ calls[n - 1].v = v /\ calls[n - 1].ret.ok
        /\ calls[n].fn = add /\ calls[n].v = v

\* C11: a remove that returned leaves its address (its pair) out of the
\* list; after add(v), remove(v), add(v) the second add returns true, for
\* addresses and for (addr, key) pairs; clear_access_list_and_refund leaves
\* both lists empty.
C11_RemoveThenAddIsNew ==
    /\ (pc = "returned" /\ args.fn = "remove_account_from_access_list")
          => args.v \notin access_list_account
    /\ (pc = "returned" /\ args.fn = "remove_account_storage_from_access_list")
          => args.v \notin access_list_account_storage
    /\ \A v \in Addrs :
          AddRemoveAdd("add", "remove", v) => calls[Len(calls)].ret = Ok(TRUE)
    /\ \A v \in AccessPairs :
          AddRemoveAdd("add_storage", "remove_storage", v)
             => calls[Len(calls)].ret = Ok(TRUE)
    /\ (pc = "returned" /\ args.fn = "clear_access_list_and_refund")
          => access_list_account = {} /\ access_list_account_storage = {}


(***************************************************************************)
(* Conversion machine: convert_lane on lanes of arbitrary digits           *)
(***************************************************************************)
\* longest of the short digit sequences
MaxDigits == 3

\* digits a lane of the base can hold: the binary ones, 2, and the largest
SampleDigits(base) == {0, 1, 2, 8, base - 1}

\* big-endian digit sequences with a nonzero leading digit, and the zero lane
ShortChunks(base) ==
    {<<0>>} \cup
    UNION {{c \in [1..n -> SampleDigits(base)] : c[1] # 0} : n \in 1..MaxDigits}

\* 64-digit lanes: all ones, all ones but a 2 at either end, the largest lane
LongChunks(base) ==
    {[i \in 1..LaneBits |-> 1],
     [i \in 1..LaneBits |-> IF i = 1 THEN 2 ELSE 1],
     [i \in 1..LaneBits |-> IF i = LaneBits THEN 2 ELSE 1],
     [i \in 1..LaneBits |-> base - 1]}

ConvertInputs ==
    UNION {[fn : {"convert_lane"},
            chunks : ShortChunks(b) \cup LongChunks(b),
            from_base : {b},
            to_base : {2, B9, B13},
            coef : {"identity", "convert_b9_coef", "convert_b13_coef"}] : b \in {B9, B13}}

ConvertInit ==
    /\ debug \in BOOLEAN
    /\ pc = "input"
    /\ args \in ConvertInputs
    /\ big = NoLane
    /\ ret = NoRet
    /\ SumIdle
    /\ ContainerIdle
    /\ DbIdle

\* BigUint::from_radix_be(&chunks, from_base).unwrap_or_default()
ComposeLane ==
    /\ pc = "input"
    /\ args.fn = "convert_lane"
    /\ big' = unwrap_or_default(Val(from_radix_be(args.chunks, args.from_base)))
    /\ pc' = "lane"
    /\ UNCHANGED <<debug, args, ret, sumVars, container, dbVars>>

ConvertLane ==
    /\ pc = "lane"
    /\ args.fn = "convert_lane"
    /\ ret' = convert_lane(big, args.from_base, args.to_base, args.coef)
    /\ pc' = "done"
    /\ UNCHANGED <<debug, args, big, sumVars, container, dbVars>>

ConvertNext == ComposeLane \/ ConvertLane

SpecConvert == ConvertInit /\ [][ConvertNext]_vars

\* the digits of the lane after the coefficient was applied, big-endian
Mapped(chunks, coef) == [i \in 1..Len(chunks) |-> Coef(coef, chunks[i])]

\* C12: when coef maps every digit of the lane, convert_lane returns 0 if one
\* mapped digit is not below to_base, and otherwise the number whose to_base
\* digits are the mapped digits, in the same order.
C12_ZeroOrRecomposed ==
    ( /\ pc = "done"
      /\ args.fn = "convert_lane"
      /\ \A i \in 1..Len(args.chunks) : Mapped(args.chunks, args.coef)[i].ok ) =>
        LET m == Mapped(args.chunks, args.coef)
            n == Len(m)
        IN  /\ ret.ok
            /\ IF \E i \in 1..n : Val(m[i]) >= args.to_base
               THEN Val(ret) = Zero
               ELSE Digits(Val(ret), args.to_base, n)
                       = [i \in 1..n |-> Val(m[n + 1 - i])]

\* a 64-digit base-9 lane of ones with a 2 as its lowest digit, converted to
\* base 2 with the identity coefficient
C12_Witness ==
    /\ pc = "done"
    /\ args.fn = "convert_lane"
    /\ args.from_base = B9
    /\ args.to_base = 2
    /\ args.coef = "identity"
    /\ args.chunks = [i \in 1..LaneBits |-> IF i = LaneBits THEN 2 ELSE 1]
    /\ big # Zero
    /\ ret = Ok(Zero)


\* C13: convert_b13_lane_to_b9 called with rot >= 64 never returns a lane:
\* the call panics, in a debug build and in a release build.
C13_RotOutOfRangeIsFatal ==
    ( /\ pc = "done"
      /\ args.fn = "convert_b13_lane_to_b9"
      /\ args.rot >= LaneBits ) => ~ret.ok

\* rot = 64 on the chunks [0, 1, 1, 1] in a release build, where 63 - rot
\* wraps to 2^64 - 1 and split_at panics
C13_Witness ==
    /\ pc = "done"
    /\ ~debug
    /\ args.fn = "convert_b13_lane_to_b9"
    /\ args.chunks = ChunksOf({<<1, 1>>, <<2, 1>>, <<3, 1>>})
    /\ args.rot = LaneBits
    /\ usize_sub(LaneBits - 1, args.rot) = Ok(Sub(Pow(2, UsizeBits), BigFrom(1)))
    /\ ret = Panic

\* the middle 63 chunks d[1..63] of the 65 chunks d
Middle(d) == SubSeq(d, 2, ThetaChunks - 1)

\* the two segments convert_b13_lane_to_b9 splits the middle chunks into
Segments(d, rot) == Val(split_at(Middle(d), Val(usize_sub(LaneBits - 1, rot))))

\* C14 as stated: with rot = 0 the right segment is the full 63-chunk middle
\* and the folded chunk special is the last (index 63) of the 64 digits.
C14_SpecialLastAtRot0 ==
    ( /\ pc = "done"
      /\ args.fn = "convert_b13_lane_to_b9"
      /\ args.rot = 0
      /\ ret.ok ) =>
        /\ Segments(args.chunks, 0).right = Middle(args.chunks)
        /\ Digits(Val(ret), B9, LaneBits)[LaneBits] = Folded(args.chunks)[0] % 2

\* C14: with rot = 0 the left segment is the full 63-chunk middle, the right
\* segment is empty, and special is the first (index 0) of the 64 digits,
\* followed by the middle chunks in their order; it is with rot = 63 that
\* the right segment is the full middle and special is the last digit.
C14_SpecialFirstAtRot0 ==
    /\ ( /\ pc = "done"
         /\ args.fn = "convert_b13_lane_to_b9"
         /\ args.rot = 0
         /\ ret.ok ) =>
           /\ Segments(args.chunks, 0).left = Middle(args.chunks)
           /\ Segments(args.chunks, 0).right = <<>>
           /\ LET r == Digits(Val(ret), B9, LaneBits)
              IN  /\ Len(r) = LaneBits
                  /\ r[1] = Folded(args.chunks)[0] % 2
                  /\ \A i \in 2..LaneBits : r[i] = args.chunks[i] % 2
    /\ ( /\ pc = "done"
         /\ args.fn = "convert_b13_lane_to_b9"
         /\ args.rot = LaneBits - 1
         /\ ret.ok ) =>
           /\ Segments(args.chunks, LaneBits - 1).left = <<>>
           /\ Segments(args.chunks, LaneBits - 1).right = Middle(args.chunks)
           /\ LET r == Digits(Val(ret), B9, LaneBits)
              IN  /\ Len(r) = LaneBits
                  /\ r[LaneBits] = Folded(args.chunks)[0] % 2
                  /\ \A i \in 1..(LaneBits - 1) : r[i] = args.chunks[i + 1] % 2

\* rot = 0 on the lane whose only nonzero chunk is chunk 0: the result is 1,
\* the folded chunk at digit 0
C14_Witness ==
    /\ pc = "done"
    /\ args.fn = "convert_b13_lane_to_b9"
    /\ args.rot = 0
    /\ args.chunks = ChunksOf({<<0, 1>>})
    /\ ret = Ok(BigFrom(1))

\* C15 as stated: for every lane of 65 base-13 chunks and rot in 0..63, every
\* value handed to convert_b13_coef is below 13, the folded chunk included,
\* and the call returns.
C15_CoefInputsBelow13 ==
    ( /\ pc = "done"
      /\ args.fn = "convert_b13_lane_to_b9"
      /\ args.rot <= LaneBits - 1 ) =>
        /\ \A i \in BitIdx : Folded(args.chunks)[i] < B13
        /\ ret.ok

\* C15: for rot in 0..63, every value handed to convert_b13_coef is below 13
\* and the call returns when chunk 0 + chunk 64 < 13; when the two chunks
\* sum to 13 or more the folded chunk breaks the precondition, and the call
\* panics in a debug build and returns in a release build.
C15_CoefInputsBelow13IfFoldFits ==
    ( /\ pc = "done"
      /\ args.fn = "convert_b13_lane_to_b9"
      /\ args.rot <= LaneBits - 1 ) =>
        IF args.chunks[1] + args.chunks[ThetaChunks] < B13
        THEN /\ \A i \in BitIdx : Folded(args.chunks)[i] < B13
             /\ ret.ok
        ELSE /\ Folded(args.chunks)[0] >= B13
             /\ ret.ok = ~debug

\* a debug build, rot = 63, chunk 0 = 12 and chunk 64 = 0: the folded chunk
\* is 12, the largest the precondition allows, and the call returns
C15_Witness ==
    /\ pc = "done"
    /\ debug
    /\ args.fn = "convert_b13_lane_to_b9"
    /\ args.rot = LaneBits - 1
    /\ args.chunks = ChunksOf({<<0, 12>>, <<64, 0>>, <<1, 1>>, <<63, 11>>})
    /\ Folded(args.chunks)[0] = B13 - 1
    /\ ret.ok

=============================================================================
